---- MODULE Spec2Model ----
(***************************************************************************)
(* The form engine of src/index.ts: an immutable Form value               *)
(* {name, fields} threaded through the builder, filler and rule-engine    *)
(* operations.  JavaScript objects are functions from their present keys  *)
(* to values, so that an absent key and a present key are told apart.     *)
(* The ramda calls are modelled by what ramda does: R.find, R.findIndex,  *)
(* R.update (R.adjust), R.prop, R.assoc, R.append, R.view, R.set, R.over. *)
(***************************************************************************)
EXTENDS Integers, Sequences, FiniteSets, TLC

VARIABLES
    form,      \* the Form value the caller holds
    res,       \* what the latest read operation gave back
    added,     \* history: the names passed to addField, in call order
    attached   \* history: per field position, the rules attached to it

vars == <<form, res, added, attached>>

----------------------------------------------------------------------------
(* Bounds and input sets *)

\* Largest Size a form may reach: its name, fields, attributes and rules.
MaxSize == 4

FieldType == {"text", "select", "boolean"}

FieldNames == {"colour", "email"}

\* The (type, name) pairs handed to addField.
AddInputs ==
    {<<"text", "colour">>, <<"select", "email">>} \cap (FieldType \X FieldNames)

FormNames == {"", "Example Form"}

Values == {"", "pink", "a@b.co"}

OptionLists == {<<"red", "green", "blue">>}

\* JavaScript undefined as a value; String(undefined) is this very string.
Undef == "undefined"

\* JavaScript undefined where an object is read: an object with no key.
NoObject == <<>>

NotValidEmail == "Not a valid email"

TypeError == "TypeError"

----------------------------------------------------------------------------
(* Strings as character sequences, for the regular expression *)

StringChars(s) ==
    CASE s = "" -> <<>>
      [] s = "pink" -> <<"p", "i", "n", "k">>
      [] s = "a@b.co" -> <<"a", "@", "b", ".", "c", "o">>
      [] s = "undefined" -> <<"u", "n", "d", "e", "f", "i", "n", "e", "d">>

Letters ==
    {"a", "b", "c", "d", "e", "f", "i", "k", "n", "o", "p", "u"}

\* [A-Z0-9._%+-] under the i flag
LocalChars == Letters \cup {".", "_", "%", "+", "-"}

\* [A-Z0-9.-] under the i flag
DomainChars == Letters \cup {".", "-"}

\* /^[A-Z0-9._%+-]+@[A-Z0-9.-]+\.[A-Z]{2,}$/i
EmailRegexTest(s) ==
    LET c == StringChars(s)
        n == Len(c)
    IN  \E at \in 1..n : \E dot \in 1..n :
            /\ c[at] = "@"
            /\ c[dot] = "."
            /\ at > 1
            /\ dot > at + 1
            /\ n - dot >= 2
            /\ \A i \in 1..(at - 1) : c[i] \in LocalChars
            /\ \A i \in (at + 1)..(dot - 1) : c[i] \in DomainChars
            /\ \A i \in (dot + 1)..n : c[i] \in Letters

isEmail(value) ==
    IF EmailRegexTest(value) THEN Undef ELSE NotValidEmail

\* R.identity, the rule the test suite attaches
identity(value) == value

ValidationRules == {"isEmail", "identity"}

ApplyValidationRule(rule, value) ==
    CASE rule = "isEmail" -> isEmail(value)
      [] rule = "identity" -> identity(value)

----------------------------------------------------------------------------
(* ramda helpers *)

\* R.prop: undefined for an absent key and for an undefined object
Prop(k, obj) == IF k \in DOMAIN obj THEN obj[k] ELSE Undef

HasKey(k, obj) == k \in DOMAIN obj

\* R.assoc: a copy of obj with k set (a fresh one-key object for undefined)
Assoc(k, v, obj) ==
    [x \in (DOMAIN obj) \cup {k} |-> IF x = k THEN v ELSE obj[x]]

\* R.propEq(name, val) as a conditional rule: values[name] equals val
PropEq(rule, values) == Prop(rule.prop, values) = rule.val

ConditionalRules ==
    {[prop |-> "colour", val |-> "pink"], [prop |-> "email", val |-> "a@b.co"]}

\* Variant of FindIndex: the index of the last match instead of the first
FindIndexLast(fieldName, arr) ==
    LET hits == {i \in 1..Len(arr) : Prop("name", arr[i]) = fieldName}
    IN  IF hits = {} THEN -1
        ELSE (CHOOSE i \in hits : \A j \in hits : i >= j) - 1

\* R.findIndex(R.propEq("name", fieldName)), 0-based, -1 when none matches
FindIndex(fieldName, arr) ==
    LET hits == {i \in 1..Len(arr) : Prop("name", arr[i]) = fieldName}
    IN  IF hits = {} THEN -1
        ELSE (CHOOSE i \in hits : \A j \in hits : i <= j) - 1

\* R.find(R.propEq("name", fieldName)): the first match or undefined
Find(fieldName, arr) ==
    LET idx == FindIndex(fieldName, arr)
    IN  IF idx = -1 THEN NoObject ELSE arr[idx + 1]

\* R.update(idx, x, list) = R.adjust(idx, R.always(x), list): the list itself
\* when idx is out of range
Update(idx, x, list) ==
    LET len == Len(list)
    IN  IF idx >= len \/ idx < -len THEN list
        ELSE [list EXCEPT ![((len + idx) % len) + 1] = x]

\* Variant of FieldLensSet: idx > 0 for idx > -1, so index 0 counts as missing
FieldLensSetFromOne(fieldName, val, arr) ==
    LET idx == FindIndex(fieldName, arr)
    IN  Update(IF idx > 0 THEN idx ELSE Len(arr), val, arr)

\* the setter of the lens field(fieldName)
FieldLensSet(fieldName, val, arr) ==
    LET idx == FindIndex(fieldName, arr)
    IN  Update(IF idx > -1 THEN idx ELSE Len(arr), val, arr)

\* Variant of SetFieldProp: the field is replaced by a fresh one-key object
SetFieldPropFresh(fieldName, key, v, f) ==
    [f EXCEPT !.fields = FieldLensSet(fieldName, Assoc(key, v, NoObject), @)]

\* R.set over fieldsLens, field(fieldName), lensProp(key)
SetFieldProp(fieldName, key, v, f) ==
    [f EXCEPT !.fields =
        FieldLensSet(fieldName, Assoc(key, v, Find(fieldName, @)), @)]

\* R.over(..., R.append(rule)): R.append on undefined starts a new list
AppendFieldProp(fieldName, key, rule, f) ==
    LET old == Find(fieldName, f.fields)
        list == IF HasKey(key, old) THEN old[key] ELSE <<>>
    IN  SetFieldProp(fieldName, key, Append(list, rule), f)

----------------------------------------------------------------------------
(* The operations of the API *)

newForm == [name |-> "", fields |-> <<>>]

setName(name, f) == [f EXCEPT !.name = name]

\* R.get is no function of ramda: the call raises a TypeError whatever f is
RGet(lensKey, f) == [ok |-> FALSE, val |-> TypeError]

getName(f) == RGet("name", f)

\* Variant of addField: R.prepend for R.append
addFieldPrepend(type, name, f) ==
    [f EXCEPT !.fields = <<[type |-> type, name |-> name]>> \o @]

addField(type, name, f) ==
    [f EXCEPT !.fields = Append(@, [type |-> type, name |-> name])]

getValue(fieldName, f) == Prop("value", Find(fieldName, f.fields))

setValue(fieldName, value, f) == SetFieldProp(fieldName, "value", value, f)

setFieldOptions(fieldName, options, f) ==
    SetFieldProp(fieldName, "options", options, f)

setDefaultVisibility(fieldName, visibility, f) ==
    SetFieldProp(fieldName, "defaultVisibility", visibility, f)

addValidationRule(fieldName, rule, f) ==
    AppendFieldProp(fieldName, "validationRules", rule, f)

addConditionalRule(fieldName, rule, f) ==
    AppendFieldProp(fieldName, "conditionalRules", rule, f)

\* Boolean(x) on a rule result: undefined and "" are falsy
Truthy(x) == x # Undef /\ x # ""

\* .map(rule => rule(field.value)).filter(Boolean)
RECURSIVE RunRules(_, _)
RunRules(rules, value) ==
    IF rules = <<>> THEN <<>>
    ELSE LET r == ApplyValidationRule(Head(rules), value)
             rest == RunRules(Tail(rules), value)
         IN  IF Truthy(r) THEN <<r>> \o rest ELSE rest

\* Variant of ValidateField: stops at the first failing rule
ValidateFieldShortCircuit(fld) ==
    LET rules == IF HasKey("validationRules", fld)
                 THEN fld["validationRules"] ELSE <<>>
        all == RunRules(rules, Prop("value", fld))
    IN  Assoc("errors", IF all = <<>> THEN <<>> ELSE <<Head(all)>>, fld)

\* Variant of ValidateField: new errors are pushed onto the errors already there
ValidateFieldAccumulate(fld) ==
    LET rules == IF HasKey("validationRules", fld)
                 THEN fld["validationRules"] ELSE <<>>
        old == IF HasKey("errors", fld) THEN fld["errors"] ELSE <<>>
    IN  Assoc("errors", old \o RunRules(rules, Prop("value", fld)), fld)

ValidateField(fld) ==
    LET rules == IF HasKey("validationRules", fld)
                 THEN fld["validationRules"] ELSE <<>>
    IN  Assoc("errors", RunRules(rules, Prop("value", fld)), fld)

validate(f) ==
    [f EXCEPT !.fields = [i \in 1..Len(@) |-> ValidateField(@[i])]]

\* the reduce of getValues: later fields overwrite earlier ones
RECURSIVE ReduceValues(_, _)
ReduceValues(prev, flds) ==
    IF flds = <<>> THEN prev
    ELSE ReduceValues(
             Assoc(Prop("name", Head(flds)), Prop("value", Head(flds)), prev),
             Tail(flds))

\* Variant of getValues: reduceRight for reduce, so earlier fields win
getValuesRight(f) ==
    ReduceValues(NoObject,
        [i \in 1..Len(f.fields) |-> f.fields[Len(f.fields) + 1 - i]])

getValues(f) == ReduceValues(NoObject, f.fields)

\* Variant of VisibleField: every for some
VisibleFieldEvery(fld, values) ==
    IF HasKey("conditionalRules", fld)
    THEN \A i \in 1..Len(fld["conditionalRules"]) :
             PropEq(fld["conditionalRules"][i], values)
    ELSE TRUE

\* conditionalRules.some(rule => rule(values)), true without the key
VisibleField(fld, values) ==
    IF HasKey("conditionalRules", fld)
    THEN \E i \in 1..Len(fld["conditionalRules"]) :
             PropEq(fld["conditionalRules"][i], values)
    ELSE TRUE

checkVisibility(f) ==
    LET values == getValues(f)
    IN  [f EXCEPT !.fields =
            [i \in 1..Len(@) |-> Assoc("visible", VisibleField(@[i], values), @[i])]]

----------------------------------------------------------------------------
(* The state machine: a caller threading one form through the operations *)

CountedKeys == {"value", "options", "defaultVisibility", "errors", "visible"}

RuleLen(key, fld) == IF HasKey(key, fld) THEN Len(fld[key]) ELSE 0

FieldSize(fld) ==
    1 + Cardinality(CountedKeys \cap DOMAIN fld)
      + RuleLen("validationRules", fld) + RuleLen("conditionalRules", fld)

RECURSIVE SizeFrom(_, _)
SizeFrom(flds, i) ==
    IF i > Len(flds) THEN 0 ELSE FieldSize(flds[i]) + SizeFrom(flds, i + 1)

Size(f) == (IF f.name = "" THEN 0 ELSE 1) + SizeFrom(f.fields, 1)

NoResult == [op |-> "none", arg |-> "", ok |-> TRUE, val |-> Undef]

\* the position in the addField history of the first field named fieldName
FirstAdded(fieldName) ==
    IF \E i \in 1..Len(added) : added[i] = fieldName
    THEN CHOOSE i \in 1..Len(added) :
             /\ added[i] = fieldName
             /\ \A j \in 1..(i - 1) : added[j] # fieldName
    ELSE 0

Init ==
    /\ form = newForm
    /\ res = NoResult
    /\ added = <<>>
    /\ attached = <<>>

Write(f) ==
    /\ Size(f) <= MaxSize
    /\ form' = f
    /\ res' = NoResult

Read(name, fieldName, r) ==
    /\ res' = [op |-> name, arg |-> fieldName, ok |-> r.ok, val |-> r.val]
    /\ UNCHANGED <<form, added, attached>>

Returned(v) == [ok |-> TRUE, val |-> v]

SetNameOp ==
    \E s \in FormNames :
        /\ Write(setName(s, form))
        /\ UNCHANGED <<added, attached>>

GetNameOp == Read("getName", "", getName(form))

AddFieldOp ==
    \E p \in AddInputs :
        /\ Write(addField(p[1], p[2], form))
        /\ added' = Append(added, p[2])
        /\ attached' = Append(attached, <<>>)

GetValueOp ==
    \E n \in FieldNames : Read("getValue", n, Returned(getValue(n, form)))

SetValueOp ==
    \E n \in FieldNames, v \in Values :
        /\ Write(setValue(n, v, form))
        /\ UNCHANGED <<added, attached>>

SetFieldOptionsOp ==
    \E n \in FieldNames, o \in OptionLists :
        /\ Write(setFieldOptions(n, o, form))
        /\ UNCHANGED <<added, attached>>

SetDefaultVisibilityOp ==
    \E n \in FieldNames, b \in BOOLEAN :
        /\ Write(setDefaultVisibility(n, b, form))
        /\ UNCHANGED <<added, attached>>

AddValidationRuleOp ==
    \E n \in FieldNames, r \in ValidationRules :
        /\ Write(addValidationRule(n, r, form))
        /\ attached' = IF FirstAdded(n) = 0 THEN attached
                       ELSE [attached EXCEPT ![FirstAdded(n)] = Append(@, r)]
        /\ UNCHANGED added

AddConditionalRuleOp ==
    \E n \in FieldNames, r \in ConditionalRules :
        /\ Write(addConditionalRule(n, r, form))
        /\ UNCHANGED <<added, attached>>

ValidateOp ==
    /\ Write(validate(form))
    /\ UNCHANGED <<added, attached>>

GetValuesOp == Read("getValues", "", Returned(getValues(form)))

CheckVisibilityOp ==
    /\ Write(checkVisibility(form))
    /\ UNCHANGED <<added, attached>>

Next ==
    \/ SetNameOp
    \/ GetNameOp
    \/ AddFieldOp
    \/ GetValueOp
    \/ SetValueOp
    \/ SetFieldOptionsOp
    \/ SetDefaultVisibilityOp
    \/ AddValidationRuleOp
    \/ AddConditionalRuleOp
    \/ ValidateOp
    \/ GetValuesOp
    \/ CheckVisibilityOp

Spec == Init /\ [][Next]_vars

----------------------------------------------------------------------------
(* Vocabulary of the properties, written without the lens machinery *)

NumFields == Len(form.fields)

NameAt(f, i) == Prop("name", f.fields[i])

ValueAt(f, i) == Prop("value", f.fields[i])

Present(n) == \E i \in 1..NumFields : NameAt(form, i) = n

Occurrences(n) == Cardinality({i \in 1..NumFields : NameAt(form, i) = n})

IsFirst(i, n) ==
    /\ NameAt(form, i) = n
    /\ \A j \in 1..(i - 1) : NameAt(form, j) # n

IsLast(i, n) ==
    /\ NameAt(form, i) = n
    /\ \A j \in (i + 1)..NumFields : NameAt(form, j) # n

NonAbsent(x) == x \notin {Undef, ""}

\* the five by-name setters, each applied to every input of its input set
SetterResults(n) ==
    [value |-> {setValue(n, v, form) : v \in Values},
     options |-> {setFieldOptions(n, o, form) : o \in OptionLists},
     defaultVisibility |-> {setDefaultVisibility(n, b, form) : b \in BOOLEAN},
     validationRules |-> {addValidationRule(n, r, form) : r \in ValidationRules},
     conditionalRules |->
         {addConditionalRule(n, r, form) : r \in ConditionalRules}]

SetterKeys ==
    {"value", "options", "defaultVisibility", "validationRules",
     "conditionalRules"}

----------------------------------------------------------------------------
(* C1 *)

\* C1: validate gives every field, as errors, exactly the non-absent results
\* of all the rules attached to it by addValidationRule, in attachment order,
\* applied to the field's current value, with no short-circuit; a field with
\* no attached rule gets the empty list.
C1_ValidateRunsAllRules ==
    LET g == validate(form)
    IN  /\ Len(attached) = NumFields
        /\ Len(g.fields) = NumFields
        /\ \A i \in 1..NumFields :
               LET results == [j \in 1..Len(attached[i]) |->
                       ApplyValidationRule(attached[i][j], ValueAt(form, i))]
               IN  /\ HasKey("errors", g.fields[i])
                   /\ g.fields[i]["errors"] = SelectSeq(results, NonAbsent)

\* validate has run on a field with two attached rules: the first one,
\* isEmail, failed and the second one still ran
C1_Witness ==
    \E i \in 1..NumFields :
        /\ attached[i] = <<"isEmail", "identity">>
        /\ HasKey("errors", form.fields[i])
        /\ form.fields[i]["errors"] = <<NotValidEmail>>
        /\ validate(form) = form

----------------------------------------------------------------------------
(* C2 *)

\* the value of the last field named n, undefined when there is none
CurrentValue(n) ==
    IF Present(n)
    THEN ValueAt(form, CHOOSE i \in 1..NumFields : IsLast(i, n))
    ELSE Undef

\* C2: checkVisibility makes a field visible when it has no conditional rules,
\* and otherwise exactly when at least one of its rules holds of the current
\* values; defaultVisibility and an earlier visible flag play no part.
C2_VisibilityIsAnyRule ==
    LET g == checkVisibility(form)
    IN  /\ Len(g.fields) = NumFields
        /\ \A i \in 1..NumFields :
               LET fld == form.fields[i]
               IN  /\ HasKey("visible", g.fields[i])
                   /\ g.fields[i]["visible"] =
                        IF HasKey("conditionalRules", fld)
                        THEN \E j \in 1..Len(fld["conditionalRules"]) :
                                 CurrentValue(fld["conditionalRules"][j].prop)
                                     = fld["conditionalRules"][j].val
                        ELSE TRUE

\* checkVisibility has run on a field whose rule asks for colour "pink" while
\* the colour is "pink": the field is visible
C2_Witness ==
    \E i \in 1..NumFields :
        /\ HasKey("conditionalRules", form.fields[i])
        /\ form.fields[i]["conditionalRules"]
               = <<[prop |-> "colour", val |-> "pink"]>>
        /\ CurrentValue("colour") = "pink"
        /\ HasKey("visible", form.fields[i])
        /\ form.fields[i]["visible"] = TRUE

----------------------------------------------------------------------------
(* C3 *)

\* C3: the field names of the form are the names passed to addField, in call
\* order, whatever other operations ran in between; addField appends exactly
\* one record {type, name} at the tail.
C3_OrderPreserved ==
    /\ NumFields = Len(added)
    /\ \A i \in 1..NumFields : NameAt(form, i) = added[i]
    /\ \A p \in AddInputs :
           addField(p[1], p[2], form).fields
               = form.fields \o <<[type |-> p[1], name |-> p[2]]>>

\* two fields were added, email before colour, and a setter and a pass have
\* acted on them since
C3_Witness ==
    /\ added = <<"email", "colour">>
    /\ HasKey("value", form.fields[2])
    /\ HasKey("visible", form.fields[1])

----------------------------------------------------------------------------
(* C4 *)

\* C4: a by-name setter called with a name the form does not hold returns
\* the original fields followed by exactly one new element.
C4_LenientWriteAppends ==
    \A n \in FieldNames :
        ~Present(n) =>
            \A key \in SetterKeys : \A g \in SetterResults(n)[key] :
                /\ Len(g.fields) = NumFields + 1
                /\ SubSeq(g.fields, 1, NumFields) = form.fields

----------------------------------------------------------------------------
(* C5 *)

\* C5 as stated: for every name n present in the form, getValues after
\* setValue(n, v) maps n to v.
C5_RoundTripAnyName ==
    \A n \in FieldNames :
        Present(n) =>
            \A v \in Values : Prop(n, getValues(setValue(n, v, form))) = v

\* C5 amended: for every name n held by exactly one field of the form,
\* getValues after setValue(n, v) maps n to v.
C5_RoundTripUniqueName ==
    \A n \in FieldNames :
        Occurrences(n) = 1 =>
            \A v \in Values : Prop(n, getValues(setValue(n, v, form))) = v

\* getValues was read after setValue gave the only field named colour the
\* value "pink", next to a field of another name
C5_Witness ==
    /\ res.op = "getValues"
    /\ Occurrences("colour") = 1
    /\ Occurrences("email") = 1
    /\ getValue("colour", form) = "pink"
    /\ res.val["colour"] = "pink"

----------------------------------------------------------------------------
(* C6 *)

\* C6: the keys of getValues(form) are exactly the field names of the form,
\* and each name is mapped to the current value of the last field of that
\* name (undefined for a field never given a value).
C6_GetValuesLastWins ==
    LET m == getValues(form)
    IN  /\ DOMAIN m = {NameAt(form, i) : i \in 1..NumFields}
        /\ \A i \in 1..NumFields :
               IsLast(i, NameAt(form, i)) =>
                   m[NameAt(form, i)] = ValueAt(form, i)

\* getValues was read on a form with two fields named colour, the first with
\* the value "pink" and the second with none: the map holds the second's
C6_Witness ==
    /\ res.op = "getValues"
    /\ NumFields = 2
    /\ NameAt(form, 1) = "colour"
    /\ NameAt(form, 2) = "colour"
    /\ ValueAt(form, 1) = "pink"
    /\ ~HasKey("value", form.fields[2])
    /\ DOMAIN res.val = {"colour"}
    /\ res.val["colour"] = Undef

----------------------------------------------------------------------------
(* C7 *)

\* C7: getValue(n, form) is the current value of the first field named n,
\* so that getValue after setValue(n, v) is v when n is present, and it is
\* undefined, returned normally, when no field is named n.
C7_GetValueFirstOrAbsent ==
    /\ \A n \in FieldNames :
           /\ \A i \in 1..NumFields :
                  IsFirst(i, n) => getValue(n, form) = ValueAt(form, i)
           /\ ~Present(n) => getValue(n, form) = Undef
           /\ Present(n) =>
                  \A v \in Values : getValue(n, setValue(n, v, form)) = v
    /\ res.op = "getValue" =>
           /\ res.ok
           /\ res.val = getValue(res.arg, form)

\* getValue was called with a name the form does not hold, next to a field of
\* another name that has a value, and returned undefined
C7_Witness ==
    /\ res.op = "getValue"
    /\ ~Present(res.arg)
    /\ \E i \in 1..NumFields : ValueAt(form, i) = "pink"
    /\ res.ok
    /\ res.val = Undef

----------------------------------------------------------------------------
(* C8 *)

\* C8: validate and checkVisibility are idempotent: a second application
\* returns the form the first one returned.
C8_PassesIdempotent ==
    /\ validate(validate(form)) = validate(form)
    /\ checkVisibility(checkVisibility(form)) = checkVisibility(form)

\* both passes have run on a field with a failing rule, and running either
\* again changes nothing
C8_Witness ==
    /\ NumFields > 0
    /\ HasKey("errors", form.fields[1])
    /\ form.fields[1]["errors"] # <<>>
    /\ HasKey("visible", form.fields[1])
    /\ validate(form) = form
    /\ checkVisibility(form) = form

----------------------------------------------------------------------------
(* C9 *)

\* C9: getName returns normally, with the name of the form: "" for newForm()
\* and s after setName(s, f), which leaves the fields alone.
C9_GetNameReturnsName ==
    /\ getName(form) = Returned(form.name)
    /\ \A s \in FormNames :
           /\ getName(setName(s, form)) = Returned(s)
           /\ setName(s, form).fields = form.fields
    /\ res.op = "getName" => res.ok /\ res.val = form.name

----------------------------------------------------------------------------
(* C10 *)

\* C10: a by-name setter called with a name n the form holds changes only its
\* one attribute of the first field named n: the form name, the number of
\* fields, every other field and every other attribute of that field, errors
\* and visible included, stay as they were.
C10_SetterFrame ==
    \A n \in FieldNames :
        Present(n) =>
            \A key \in SetterKeys : \A g \in SetterResults(n)[key] :
                /\ g.name = form.name
                /\ Len(g.fields) = NumFields
                /\ \A i \in 1..NumFields :
                       IF IsFirst(i, n)
                       THEN /\ DOMAIN g.fields[i]
                                  = (DOMAIN form.fields[i]) \cup {key}
                            /\ \A k \in (DOMAIN form.fields[i]) \ {key} :
                                   g.fields[i][k] = form.fields[i][k]
                       ELSE g.fields[i] = form.fields[i]

\* setValue has acted on a field after validate: the errors of the earlier
\* pass are still there although the new value is a valid email
C10_Witness ==
    \E i \in 1..NumFields :
        /\ attached[i] = <<"isEmail">>
        /\ ValueAt(form, i) = "a@b.co"
        /\ HasKey("errors", form.fields[i])
        /\ form.fields[i]["errors"] = <<NotValidEmail>>

====
